---- MODULE Spec2Model ----
(***************************************************************************)
(* State-machine model of hw2/cs285/networks/policies.py: the classes      *)
(* MLPPolicy and MLPPolicyPG.                                              *)
(*                                                                         *)
(* Numbers.  torch computes in float32; the model computes in fixed point: *)
(* the integer v stands for the real v / SCALE, and every product and      *)
(* quotient is rounded to the nearest unit, symmetrically around 0.        *)
(* Tensors.  A 1-D tensor is a sequence of numbers, a 2-D tensor a         *)
(* sequence of rows.  torch's broadcasting of the batch axis (sizes must   *)
(* be equal, or one of them 1) is modelled explicitly.                     *)
(* Approximator.  ptu.build_mlp is instantiated with n_layers = 0: a       *)
(* single linear layer  out = weight . in + bias.                          *)
(* Exceptions.  An operation that raises yields Err(<exception name>); the *)
(* callers propagate it, as Python does.                                   *)
(***************************************************************************)
EXTENDS Integers, Sequences, FiniteSets, TLC

\* ---- bounds of the model ------------------------------------------------
\* fixed-point resolution: v stands for v / SCALE
SCALE == 1000
\* largest action and observation dimensions a policy is constructed with
MaxAcDim == 2
MaxObDim == 1
\* largest batch size passed to update
MaxBatch == 2
\* number of method calls made on one policy instance
MaxCalls == 3
\* the learning_rate constructor argument, in units of 1 / SCALE
learning_rate == 100

VARIABLES
    cls,         \* class of the instance: "None" before __init__ has run
    attrs,       \* names of the attributes __init__ has set on the instance
    discrete,    \* self.discrete
    logits_net,  \* self.logits_net  (meaningful iff "logits_net" \in attrs)
    mean_net,    \* self.mean_net    (meaningful iff "mean_net" \in attrs)
    logstd,      \* self.logstd      (meaningful iff "logstd" \in attrs)
    grad,        \* .grad of the optimizer's parameters, flattened
    optimizer,   \* self.optimizer: Adam's lr, step count and moment estimates
    result,      \* the last call: its name, arguments, outcome and return value
    ctor,        \* history: the arguments __init__ was called with
    nCalls,      \* history: method calls made so far
    nCompleted   \* history: update calls that returned normally

vars == <<cls, attrs, discrete, logits_net, mean_net, logstd, grad, optimizer,
          result, ctor, nCalls, nCompleted>>

\* ---- fixed-point arithmetic ---------------------------------------------
Rnd(n, d) == IF n >= 0 THEN (n + d \div 2) \div d ELSE -((-n + d \div 2) \div d)

FxMul(a, b) == Rnd(a * b, SCALE)

FxDiv(a, b) == Rnd(a * SCALE, b)

Max2(a, b) == IF a >= b THEN a ELSE b

\* LET v == x IN F(v), with x evaluated once, before F is applied
Bind(x, F(_)) == CHOOSE y \in {F(v) : v \in {x}} : TRUE

RECURSIVE SumTo(_, _)
SumTo(s, n) == IF n = 0 THEN 0 ELSE s[n] + SumTo(s, n - 1)

SumSeq(s) == Bind(s, LAMBDA v : SumTo(v, Len(v)))

RECURSIVE MaxTo(_, _)
MaxTo(s, n) == IF n = 1 THEN s[1] ELSE Max2(s[n], MaxTo(s, n - 1))

MaxSeq(s) == Bind(s, LAMBDA v : MaxTo(v, Len(v)))

RECURSIVE ConcatTo(_, _)
ConcatTo(rows, n) == IF n = 0 THEN <<>> ELSE ConcatTo(rows, n - 1) \o rows[n]

Concat(rows) == Bind(rows, LAMBDA v : ConcatTo(v, Len(v)))

\* e^(r/SCALE) by its Taylor series in Horner form, for 0 <= r <= SCALE
RECURSIVE ExpH(_, _)
ExpH(r, k) == IF k > 9 THEN SCALE ELSE SCALE + Rnd(r * ExpH(r, k + 1), k * SCALE)

RECURSIVE ExpPos(_)
ExpPos(a) == IF a > SCALE THEN FxMul(ExpH(SCALE, 1), ExpPos(a - SCALE)) ELSE ExpH(a, 1)

\* torch.exp
Exp(a) == IF a >= 0 THEN ExpPos(a) ELSE FxDiv(SCALE, ExpPos(-a))

RECURSIVE LnH(_, _)
LnH(z2, k) == IF k > 11 THEN 0 ELSE Rnd(SCALE, k) + FxMul(z2, LnH(z2, k + 2))

\* torch.log: range reduction by e, then ln y = 2 atanh((y - 1) / (y + 1)).
\* log(0) = -inf has no fixed-point value; it is not reached within the bounds.
RECURSIVE Ln(_)
Ln(y) == IF y <= 0 THEN -(SCALE * SCALE)
         ELSE IF y >= ExpH(SCALE, 1) THEN SCALE + Ln(FxDiv(y, ExpH(SCALE, 1)))
         ELSE IF y < SCALE THEN Ln(FxMul(y, ExpH(SCALE, 1))) - SCALE
         ELSE LET z == FxDiv(y - SCALE, y + SCALE)
              IN  2 * FxMul(z, LnH(FxMul(z, z), 1))

\* largest r in lo..hi with r * r <= n
RECURSIVE ISqrtIn(_, _, _)
ISqrtIn(n, lo, hi) ==
    IF lo >= hi THEN lo
    ELSE LET mid == (lo + hi + 1) \div 2
         IN  IF mid * mid <= n THEN ISqrtIn(n, mid, hi) ELSE ISqrtIn(n, lo, mid - 1)

ISqrt(n) == ISqrtIn(n, 0, 46340)

\* ---- outcomes of operations that may raise ------------------------------
Ok(v) == [ok |-> TRUE, v |-> v]

Err(e) == [ok |-> FALSE, v |-> e]

\* size of two broadcast batch axes; 0 when they cannot be broadcast
BSize(a, b) == IF a = b THEN a ELSE IF a = 1 THEN b ELSE IF b = 1 THEN a ELSE 0

\* index into an axis of size len of element k of the broadcast result
BIdx(len, k) == IF len = 1 THEN 1 ELSE k

\* ---- the function approximator (ptu.build_mlp, n_layers = 0) -------------
\* nn.Linear(input_size, output_size).  torch draws the initial weights at
\* random; w0 selects one of the initial values the model starts from.
build_mlp(input_size, output_size, w0) ==
    [weight |-> [j \in 1..output_size |->
                    [i \in 1..input_size |-> IF j % 2 = 1 THEN w0 ELSE -w0]],
     bias   |-> [j \in 1..output_size |-> 0]]

\* the value of a network attribute that __init__ did not set
NoNet == [weight |-> <<>>, bias |-> <<>>]

\* net.parameters(): the weight matrix row by row, then the bias
Flatten(net) == Concat(net.weight) \o net.bias

Unflatten(net, flat) ==
    LET out == Len(net.bias)
        in  == IF out = 0 THEN 0 ELSE Len(net.weight[1])
    IN  [weight |-> [j \in 1..out |-> [i \in 1..in |-> flat[(j - 1) * in + i]]],
         bias   |-> [j \in 1..out |-> flat[out * in + j]]]

\* net(o) for one observation vector o
Linear(net, o) ==
    [j \in 1..Len(net.bias) |->
        SumSeq([i \in 1..Len(o) |-> FxMul(net.weight[j][i], o[i])]) + net.bias[j]]

\* ---- torch.distributions ------------------------------------------------
\* Categorical(logits = l) keeps l - logsumexp(l)
LogSumExp(l) ==
    Bind(MaxSeq(l), LAMBDA m :
        m + Bind(SumSeq([j \in 1..Len(l) |-> Exp(l[j] - m)]), LAMBDA t : Ln(t)))

Normalise(l) ==
    IF Len(l) = 0 THEN <<>>
    ELSE Bind(LogSumExp(l), LAMBDA lse : [j \in 1..Len(l) |-> l[j] - lse])

Categorical(rows) ==
    Bind(rows, LAMBDA r : [logits |-> [k \in 1..Len(r) |-> Normalise(r[k])]])

Normal(loc, scale) == [loc |-> loc, scale |-> scale]

\* math.log(math.sqrt(2 * math.pi))
LogSqrt2Pi == Rnd(918939 * SCALE, 1000000)

\* tensor.long(): a float truncated to an integer
Long(x) == IF x >= 0 THEN x \div SCALE ELSE -((-x) \div SCALE)

\* Categorical.log_prob(value) on a float tensor of indices: the sample is
\* validated (its batch axis must broadcast against the distribution's, each
\* value must be a whole number in the support 0 .. N-1), then value.long()
\* gathers the normalised logit of each index.
Categorical_log_prob(dist, value) ==
    LET B1 == Len(dist.logits)
        B2 == Len(value)
        n  == BSize(B1, B2)
    IN  IF n = 0 THEN Err("ValueError")
        ELSE IF \E k \in 1..B2 : \/ value[k] % SCALE # 0
                                 \/ value[k] < 0
                                 \/ value[k] > (Len(dist.logits[1]) - 1) * SCALE
        THEN Err("ValueError")
        ELSE Ok([k \in 1..n |-> dist.logits[BIdx(B1, k)][Long(value[BIdx(B2, k)]) + 1]])

\* Normal.log_prob(value), elementwise:
\*   -((value - loc) ** 2) / (2 * scale ** 2) - log(scale) - log(sqrt(2 pi))
Normal_log_prob(dist, value) ==
    LET B1 == Len(dist.loc)
        B2 == Len(value)
        n  == BSize(B1, B2)
    IN  IF n = 0 THEN Err("ValueError")
        ELSE Ok([k \in 1..n |->
                   [d \in 1..Len(dist.scale) |->
                      LET z   == value[BIdx(B2, k)][d] - dist.loc[BIdx(B1, k)][d]
                          var == FxMul(dist.scale[d], dist.scale[d])
                      IN  -FxDiv(FxMul(z, z), 2 * var) - Ln(dist.scale[d]) - LogSqrt2Pi]])

\* mutant: the sampled index counted from 1
Categorical_sample_OneBased(logits) == 1..Len(logits)

\* Categorical.sample(): the indices torch.multinomial can return
Categorical_sample(logits) == 0..(Len(logits) - 1)

\* Normal.rsample(): loc + eps * scale with eps drawn from N(0, 1)
Normal_rsample(loc, scale, eps) == [d \in 1..Len(loc) |-> loc[d] + FxMul(eps[d], scale[d])]

\* ---- MLPPolicy ----------------------------------------------------------
\* the instance, as the methods below read it
Self ==
    [discrete |-> discrete, logits_net |-> logits_net, mean_net |-> mean_net,
     logstd |-> logstd, grad |-> grad, optimizer |-> optimizer]

\* MLPPolicy.forward on a batch of observation rows
forward(s, obs) ==
    IF s.discrete
    THEN Categorical([k \in 1..Len(obs) |-> Linear(s.logits_net, obs[k])])
    ELSE Normal([k \in 1..Len(obs) |-> Linear(s.mean_net, obs[k])],
                [d \in 1..Len(s.logstd) |-> Exp(s.logstd[d])])

\* the parameters handed to the optimizer, in its order
parameters(s) ==
    IF s.discrete THEN Flatten(s.logits_net) ELSE s.logstd \o Flatten(s.mean_net)

\* the instance with the optimizer's parameters replaced by flat
with_parameters(s, flat) ==
    IF s.discrete
    THEN [s EXCEPT !.logits_net = Unflatten(s.logits_net, flat)]
    ELSE [s EXCEPT !.logstd = SubSeq(flat, 1, Len(s.logstd)),
                   !.mean_net = Unflatten(s.mean_net,
                                          SubSeq(flat, Len(s.logstd) + 1, Len(flat)))]

\* optim.Adam(parameters, learning_rate): betas (0.9, 0.999); the moment
\* estimates start at zero.
Adam(params, lr) ==
    [lr |-> lr, step |-> 0,
     exp_avg    |-> [i \in 1..Len(params) |-> 0],
     exp_avg_sq |-> [i \in 1..Len(params) |-> 0]]

NoGrad == [none |-> TRUE, v |-> <<>>]

\* ---- MLPPolicyPG.update, step by step ----------------------------------
\* log_p: one scalar per batch element (the continuous case sums dim -1)
SumLastDim(lp) == IF lp.ok THEN Ok([k \in 1..Len(lp.v) |-> SumSeq(lp.v[k])]) ELSE lp

pg_log_p(s, obs, actions) ==
    Bind(forward(s, obs), LAMBDA action_distribution :
        IF s.discrete
        THEN Categorical_log_prob(action_distribution, actions)
        ELSE Bind(Normal_log_prob(action_distribution, actions), SumLastDim))

\* mutant: log_p + advantages in place of the product
Mul1D_Add(a, b) ==
    LET n == BSize(Len(a), Len(b))
    IN  IF n = 0 THEN Err("RuntimeError")
        ELSE Ok([k \in 1..n |-> a[BIdx(Len(a), k)] + b[BIdx(Len(b), k)]])

\* log_p * advantages, broadcast by torch
Mul1D(a, b) ==
    LET n == BSize(Len(a), Len(b))
    IN  IF n = 0 THEN Err("RuntimeError")
        ELSE Ok([k \in 1..n |-> FxMul(a[BIdx(Len(a), k)], b[BIdx(Len(b), k)])])

\* tensor.mean() over all elements
Mean(t) == Rnd(SumSeq(t), Len(t))

\* mutant: the negation left out
pg_loss_NoNegation(s, obs, actions, advantages) ==
    Bind(pg_log_p(s, obs, actions), LAMBDA log_p :
        IF ~log_p.ok THEN log_p
        ELSE Bind(Mul1D(log_p.v, advantages), LAMBDA prod :
                 IF ~prod.ok THEN prod ELSE Ok(Mean(prod.v))))

\* loss = -(log_p * advantages).mean()
pg_loss(s, obs, actions, advantages) ==
    Bind(pg_log_p(s, obs, actions), LAMBDA log_p :
        IF ~log_p.ok THEN log_p
        ELSE Bind(Mul1D(log_p.v, advantages), LAMBDA prod :
                 IF ~prod.ok THEN prod ELSE Ok(-Mean(prod.v))))

\* d loss / d parameters as autograd computes it for the graph of pg_loss,
\* flattened in the optimizer's parameter order.  Element k of the product
\* log_p * advantages reads log_p[kl], built from obs row ko and action ka.
\* dist is forward(s, obs).
gradient_through(dist, s, obs, actions, advantages) ==
    LET Bo   == Len(obs)
        Ba   == Len(actions)
        Bv   == Len(advantages)
        nlp  == BSize(Bo, Ba)
        n    == BSize(nlp, Bv)
        kl(k) == BIdx(nlp, k)
        ko(k) == BIdx(Bo, kl(k))
        ka(k) == BIdx(Ba, kl(k))
        adv(k) == advantages[BIdx(Bv, k)]
        in   == IF Bo = 0 THEN 0 ELSE Len(obs[1])
    IN  IF s.discrete
        THEN LET out == Len(s.logits_net.bias)
                 \* adv * d log_p[k] / d logit[j] = adv * ([j = action] - softmax[j])
                 dlogit == [k \in 1..n |-> [j \in 1..out |->
                     FxMul(adv(k), (IF j = Long(actions[ka(k)]) + 1 THEN SCALE ELSE 0)
                                   - Exp(dist.logits[ko(k)][j]))]]
             IN  Bind(dlogit, LAMBDA dl :
                   Concat([j \in 1..out |-> [i \in 1..in |->
                      -Rnd(SumSeq([k \in 1..n |-> FxMul(dl[k][j], obs[ko(k)][i])]), n)]])
                   \o [j \in 1..out |-> -Rnd(SumSeq([k \in 1..n |-> dl[k][j]]), n)])
        ELSE LET out == Len(s.mean_net.bias)
                 var(d) == FxMul(dist.scale[d], dist.scale[d])
                 z(k, d) == actions[ka(k)][d] - dist.loc[ko(k)][d]
                 \* adv * d log_p[k] / d loc[d] = adv * z / var
                 dmu == [k \in 1..n |-> [d \in 1..out |->
                            FxMul(adv(k), FxDiv(z(k, d), var(d)))]]
                 \* adv * d log_p[k] / d logstd[d] = adv * (z^2 / var - 1)
                 dls == [k \in 1..n |-> [d \in 1..out |->
                            FxMul(adv(k), FxDiv(FxMul(z(k, d), z(k, d)), var(d)) - SCALE)]]
             IN  Bind(<<dmu, dls>>, LAMBDA g :
                   [d \in 1..out |-> -Rnd(SumSeq([k \in 1..n |-> g[2][k][d]]), n)]
                   \o Concat([d \in 1..out |-> [i \in 1..in |->
                      -Rnd(SumSeq([k \in 1..n |-> FxMul(g[1][k][d], obs[ko(k)][i])]), n)]])
                   \o [d \in 1..out |-> -Rnd(SumSeq([k \in 1..n |-> g[1][k][d]]), n)])

loss_gradient(s, obs, actions, advantages) ==
    Bind(forward(s, obs), LAMBDA dist : gradient_through(dist, s, obs, actions, advantages))

\* mutant: the accumulated gradients are kept
optimizer_zero_grad_Keep(g) == g

\* self.optimizer.zero_grad(): the accumulated gradients are dropped
optimizer_zero_grad(g) == NoGrad

\* loss.backward(): the gradient of this loss is added to .grad
loss_backward(g, dloss) ==
    IF g.none THEN [none |-> FALSE, v |-> dloss]
    ELSE [none |-> FALSE, v |-> [i \in 1..Len(dloss) |-> g.v[i] + dloss[i]]]

\* beta1^t in units of 1 / SCALE, beta2^t in units of 1 / 1000000
RECURSIVE Beta1Pow(_)
Beta1Pow(t) == IF t = 0 THEN SCALE ELSE Rnd(9 * Beta1Pow(t - 1), 10)

RECURSIVE Beta2Pow(_)
Beta2Pow(t) == IF t = 0 THEN 1000000 ELSE Rnd(999 * Beta2Pow(t - 1), 1000)

\* a * b / c for a, c >= 0 without forming a * b
MulDiv(a, b, c) == (a \div c) * b + Rnd((a % c) * b, c)

\* self.optimizer.step(): one Adam step on every parameter that has a gradient.
\*   exp_avg    = beta1 exp_avg    + (1 - beta1) g
\*   exp_avg_sq = beta2 exp_avg_sq + (1 - beta2) g^2
\*   p -= lr / (1 - beta1^t) * exp_avg / (sqrt(exp_avg_sq / (1 - beta2^t)) + eps)
\* The moments are kept at a finer resolution than the parameters, so that
\* (1 - beta) g is not rounded away: exp_avg in units of 1 / (10 SCALE),
\* exp_avg_sq in units of 1 / (1000 SCALE^2).  eps = 1e-8 is below every
\* resolution: it only keeps the denominator from being 0.
adam_moments(opt, g) ==
    [exp_avg    |-> [i \in 1..Len(g) |-> Rnd(9 * opt.exp_avg[i], 10) + g[i]],
     exp_avg_sq |-> [i \in 1..Len(g) |->
                        opt.exp_avg_sq[i] - Rnd(opt.exp_avg_sq[i], 1000) + g[i] * g[i]]]

adam_apply(s, mv) ==
    LET t   == s.optimizer.step + 1
        p   == parameters(s)
        bc1 == SCALE - Beta1Pow(t)
        bc2 == 1000000 - Beta2Pow(t)
        mhat(i)  == Rnd(mv.exp_avg[i] * SCALE, 10 * bc1)
        denom(i) == Max2(ISqrt(MulDiv(mv.exp_avg_sq[i], 1000, bc2)), 1)
        new == [i \in 1..Len(p) |->
                   p[i] - FxMul(s.optimizer.lr, FxDiv(mhat(i), denom(i)))]
    IN  [with_parameters(s, new) EXCEPT
            !.optimizer = [s.optimizer EXCEPT !.step = t, !.exp_avg = mv.exp_avg,
                                              !.exp_avg_sq = mv.exp_avg_sq]]

optimizer_step(s) ==
    IF s.grad.none THEN s
    ELSE Bind(adam_moments(s.optimizer, s.grad.v), LAMBDA mv : adam_apply(s, mv))

\* lines 121-123 in order: zero_grad, backward, step
pg_step(s, obs, actions, advantages) ==
    Bind([s EXCEPT !.grad = optimizer_zero_grad(s.grad)], LAMBDA s1 :
      Bind([s1 EXCEPT !.grad = loss_backward(s1.grad,
                                  loss_gradient(s1, obs, actions, advantages))],
           optimizer_step))

\* ptu.from_numpy(a) = torch.from_numpy(a).float() on an integer array (the
\* action indices of discrete mode): index a becomes the float a.0.  A float
\* array (observations, advantages, continuous actions) keeps its values at
\* the model's resolution.
from_numpy_int(a) == [k \in 1..Len(a) |-> a[k] * SCALE]

\* mutant: the loss reported is the loss after the step
update_tensors_LossAfterStep(s, obs, actions, advantages) ==
    Bind(pg_loss(s, obs, actions, advantages), LAMBDA loss :
        IF ~loss.ok
        THEN [status |-> loss.v, value |-> <<>>, policy |-> s]
        ELSE Bind(pg_step(s, obs, actions, advantages), LAMBDA after :
                 [status |-> "ok",
                  value |-> ("Actor Loss" :> pg_loss(after, obs, actions, advantages).v),
                  policy |-> after]))

\* lines 111-127 on the converted tensors: the exception raised, or the
\* returned mapping together with the instance as the call leaves it
update_tensors(s, obs, actions, advantages) ==
    Bind(pg_loss(s, obs, actions, advantages), LAMBDA loss :
        IF ~loss.ok
        THEN [status |-> loss.v, value |-> <<>>, policy |-> s]
        ELSE [status |-> "ok", value |-> ("Actor Loss" :> loss.v),
              policy |-> pg_step(s, obs, actions, advantages)])

\* the whole of MLPPolicyPG.update on instance s
update_run(s, obs, actions, advantages) ==
    update_tensors(s, obs, IF s.discrete THEN from_numpy_int(actions) ELSE actions,
                   advantages)

\* ---- the calls made on the instance --------------------------------------
\* mutant: logstd initialised to ones
MLPPolicy__init__OnesStd(c, ac_dim, ob_dim, disc, w0, lr) ==
    /\ cls = "None"
    /\ cls' = c
    /\ IF disc
       THEN /\ logits_net' = build_mlp(ob_dim, ac_dim, w0)
            /\ optimizer' = Adam(Flatten(build_mlp(ob_dim, ac_dim, w0)), lr)
            /\ attrs' = {"logits_net", "optimizer", "discrete"}
            /\ UNCHANGED <<mean_net, logstd>>
       ELSE /\ mean_net' = build_mlp(ob_dim, ac_dim, w0)
            /\ logstd' = [d \in 1..ac_dim |-> SCALE]
            /\ optimizer' = Adam([d \in 1..ac_dim |-> SCALE]
                                 \o Flatten(build_mlp(ob_dim, ac_dim, w0)), lr)
            /\ attrs' = {"mean_net", "logstd", "optimizer", "discrete"}
            /\ UNCHANGED logits_net
    /\ discrete' = disc
    /\ ctor' = [ac_dim |-> ac_dim, ob_dim |-> ob_dim, discrete |-> disc]
    /\ result' = [op |-> "__init__", status |-> "ok"]
    /\ UNCHANGED <<grad, nCalls, nCompleted>>

\* MLPPolicy.__init__ (inherited unchanged by MLPPolicyPG)
MLPPolicy__init__(c, ac_dim, ob_dim, disc, w0, lr) ==
    /\ cls = "None"
    /\ cls' = c
    /\ IF disc
       THEN /\ logits_net' = build_mlp(ob_dim, ac_dim, w0)
            /\ optimizer' = Adam(Flatten(build_mlp(ob_dim, ac_dim, w0)), lr)
            /\ attrs' = {"logits_net", "optimizer", "discrete"}
            /\ UNCHANGED <<mean_net, logstd>>
       ELSE /\ mean_net' = build_mlp(ob_dim, ac_dim, w0)
            /\ logstd' = [d \in 1..ac_dim |-> 0]
            /\ optimizer' = Adam([d \in 1..ac_dim |-> 0]
                                 \o Flatten(build_mlp(ob_dim, ac_dim, w0)), lr)
            /\ attrs' = {"mean_net", "logstd", "optimizer", "discrete"}
            /\ UNCHANGED logits_net
    /\ discrete' = disc
    /\ ctor' = [ac_dim |-> ac_dim, ob_dim |-> ob_dim, discrete |-> disc]
    /\ result' = [op |-> "__init__", status |-> "ok"]
    /\ UNCHANGED <<grad, nCalls, nCompleted>>

\* the noise vectors rsample is modelled to draw
NoiseVecs(n) == {[d \in 1..n |-> e] : e \in {-SCALE, SCALE}}

\* mutant: the forward pass of get_action leaves gradients behind
get_action_Tracking(obs) ==
    /\ cls # "None"
    /\ nCalls < MaxCalls
    /\ \E action_distribution \in {forward(Self, <<obs>>)} :
           IF discrete
           THEN \E action \in Categorical_sample(action_distribution.logits[1]) :
                   result' = [op |-> "get_action", obs |-> obs,
                              status |-> "ok", value |-> action]
           ELSE \E eps \in NoiseVecs(Len(action_distribution.scale)) :
                   result' = [op |-> "get_action", obs |-> obs, status |-> "ok",
                              value |-> Normal_rsample(action_distribution.loc[1],
                                                       action_distribution.scale, eps)]
    /\ grad' = [none |-> FALSE, v |-> [i \in 1..Len(parameters(Self)) |-> SCALE]]
    /\ nCalls' = nCalls + 1
    /\ UNCHANGED <<cls, attrs, discrete, logits_net, mean_net, logstd,
                   optimizer, ctor, nCompleted>>

\* MLPPolicy.get_action under torch.no_grad(): a single observation is a batch
\* of one row here; nothing of the forward pass is recorded for autograd.
get_action(obs) ==
    /\ cls # "None"
    /\ nCalls < MaxCalls
    /\ \E action_distribution \in {forward(Self, <<obs>>)} :
           IF discrete
           THEN IF Categorical_sample(action_distribution.logits[1]) = {}
                THEN result' = [op |-> "get_action", obs |-> obs,
                                status |-> "RuntimeError", value |-> <<>>]
                ELSE \E action \in Categorical_sample(action_distribution.logits[1]) :
                        result' = [op |-> "get_action", obs |-> obs,
                                   status |-> "ok", value |-> action]
           ELSE \E eps \in NoiseVecs(Len(action_distribution.scale)) :
                   result' = [op |-> "get_action", obs |-> obs, status |-> "ok",
                              value |-> Normal_rsample(action_distribution.loc[1],
                                                       action_distribution.scale, eps)]
    /\ nCalls' = nCalls + 1
    /\ UNCHANGED <<cls, attrs, discrete, logits_net, mean_net, logstd, grad,
                   optimizer, ctor, nCompleted>>

\* mutant: the base update returns an empty mapping
MLPPolicy_update_Pass(obs, actions) ==
    /\ cls = "MLPPolicy"
    /\ nCalls < MaxCalls
    /\ result' = [op |-> "update", obs |-> obs, actions |-> actions,
                  status |-> "ok", value |-> <<>>]
    /\ nCalls' = nCalls + 1
    /\ UNCHANGED <<cls, attrs, discrete, logits_net, mean_net, logstd, grad,
                   optimizer, ctor, nCompleted>>

\* MLPPolicy.update: raise NotImplementedError
MLPPolicy_update(obs, actions) ==
    /\ cls = "MLPPolicy"
    /\ nCalls < MaxCalls
    /\ result' = [op |-> "update", obs |-> obs, actions |-> actions,
                  status |-> "NotImplementedError", value |-> <<>>]
    /\ nCalls' = nCalls + 1
    /\ UNCHANGED <<cls, attrs, discrete, logits_net, mean_net, logstd, grad,
                   optimizer, ctor, nCompleted>>

\* MLPPolicyPG.update
MLPPolicyPG_update(obs, actions, advantages) ==
    /\ cls = "MLPPolicyPG"
    /\ nCalls < MaxCalls
    /\ \E r \in {update_run(Self, obs, actions, advantages)} :
           /\ result' = [op |-> "update", obs |-> obs, actions |-> actions,
                         advantages |-> advantages,
                         status |-> r.status, value |-> r.value]
           /\ logits_net' = r.policy.logits_net
           /\ mean_net' = r.policy.mean_net
           /\ logstd' = r.policy.logstd
           /\ grad' = r.policy.grad
           /\ optimizer' = r.policy.optimizer
           /\ discrete' = r.policy.discrete
           /\ nCompleted' = IF r.status = "ok" THEN nCompleted + 1 ELSE nCompleted
    /\ nCalls' = nCalls + 1
    /\ UNCHANGED <<cls, attrs, ctor>>

\* ---- the arguments the calls are made with --------------------------------
Classes == {"MLPPolicy", "MLPPolicyPG"}

\* the initial weight values a construction may draw
InitWeights == {0, SCALE \div 2}

ObsRow(q, n) == [i \in 1..n |-> IF (q + i) % 2 = 0 THEN SCALE ELSE -(SCALE \div 2)]

ObsBatch(B, n) == [k \in 1..B |-> ObsRow(k, n)]

\* B taken actions: indices in discrete mode, rows of length n otherwise
ActionBatch(B, disc, n) ==
    IF disc
    THEN [k \in 1..B |-> IF n = 0 THEN 0 ELSE (k - 1) % n]
    ELSE [k \in 1..B |-> [d \in 1..n |-> IF (k + d) % 2 = 0 THEN SCALE ELSE 0]]

AdvBatches(B) ==
    { [k \in 1..B |-> 0],
      [k \in 1..B |-> SCALE],
      [k \in 1..B |-> IF k % 2 = 1 THEN SCALE ELSE -(SCALE \div 2)] }

Init ==
    /\ cls = "None"
    /\ attrs = {}
    /\ discrete = FALSE
    /\ logits_net = NoNet
    /\ mean_net = NoNet
    /\ logstd = <<>>
    /\ grad = NoGrad
    /\ optimizer = Adam(<<>>, 0)
    /\ result = [op |-> "none", status |-> "ok"]
    /\ ctor = [ac_dim |-> 0, ob_dim |-> 0, discrete |-> FALSE]
    /\ nCalls = 0
    /\ nCompleted = 0

\* calls within the documented preconditions: positive dimensions, and
\* observations, actions and advantages of one batch size
Next ==
    \/ \E c \in Classes, ac \in 1..MaxAcDim, ob \in 1..MaxObDim,
          disc \in BOOLEAN, w0 \in InitWeights :
          MLPPolicy__init__(c, ac, ob, disc, w0, learning_rate)
    \/ \E q \in 1..2 : get_action(ObsRow(q, ctor.ob_dim))
    \/ \E B \in 1..MaxBatch :
          MLPPolicy_update(ObsBatch(B, ctor.ob_dim),
                           ActionBatch(B, ctor.discrete, ctor.ac_dim))
    \/ \E B \in 1..MaxBatch : \E adv \in AdvBatches(B) :
          MLPPolicyPG_update(ObsBatch(B, ctor.ob_dim),
                             ActionBatch(B, ctor.discrete, ctor.ac_dim), adv)

Spec == Init /\ [][Next]_vars

\* any calls: dimensions that may be 0, batch sizes that may differ
NextAnyArgs ==
    \/ \E c \in Classes, ac \in 0..MaxAcDim, ob \in 0..MaxObDim,
          disc \in BOOLEAN, w0 \in InitWeights :
          MLPPolicy__init__(c, ac, ob, disc, w0, learning_rate)
    \/ \E q \in 1..2 : get_action(ObsRow(q, ctor.ob_dim))
    \/ \E B \in 1..MaxBatch :
          MLPPolicy_update(ObsBatch(B, ctor.ob_dim),
                           ActionBatch(B, ctor.discrete, ctor.ac_dim))
    \/ \E Bo \in 1..MaxBatch, Ba \in 1..MaxBatch, Bv \in 1..MaxBatch :
          \E adv \in AdvBatches(Bv) :
             MLPPolicyPG_update(ObsBatch(Bo, ctor.ob_dim),
                                ActionBatch(Ba, ctor.discrete, ctor.ac_dim), adv)

SpecAnyArgs == Init /\ [][NextAnyArgs]_vars

\* ==== the claims ============================================================
\* a call of method op was just made (the step from the unprimed state)
Called(op) == nCalls' = nCalls + 1 /\ result'.op = op

AllZero(t) == \A i \in 1..Len(t) : t[i] = 0

EqualBatch(r) == Len(r.obs) = Len(r.actions) /\ Len(r.actions) = Len(r.advantages)

\* the log-probability of one taken action a for one observation o under the
\* instance's current parameters: log softmax(logits)[a] in discrete mode, the
\* sum over the action dimensions of the Gaussian log-densities otherwise
ElementLogProb(s, o, a) ==
    IF s.discrete
    THEN Linear(s.logits_net, o)[a + 1] - LogSumExp(Linear(s.logits_net, o))
    ELSE SumSeq([d \in 1..Len(s.logstd) |->
            LET sigma == Exp(s.logstd[d])
                diff  == a[d] - Linear(s.mean_net, o)[d]
            IN  -FxDiv(FxMul(diff, diff), 2 * FxMul(sigma, sigma))
                - Ln(sigma) - LogSqrt2Pi])

NegMeanLogProbTimesAdvantage(s, obs, actions, advantages) ==
    -Rnd(SumSeq([k \in 1..Len(obs) |->
                    FxMul(ElementLogProb(s, obs[k], actions[k]), advantages[k])]),
         Len(obs))

\* C1: every update on batches of one size returns, under "Actor Loss",
\* -mean over the batch of (log-probability of the taken action under the
\* distribution of the current parameters) x advantage.
C1_ActorLoss ==
    [][(Called("update") /\ cls = "MLPPolicyPG" /\ EqualBatch(result'))
       => /\ result'.status = "ok"
          /\ DOMAIN result'.value = {"Actor Loss"}
          /\ result'.value["Actor Loss"]
               = NegMeanLogProbTimesAdvantage(Self, result'.obs, result'.actions,
                                              result'.advantages)]_vars

\* a continuous update on a batch of 2 with 2 action dimensions and a loss # 0
C1_Witness ==
    /\ result.op = "update" /\ result.status = "ok"
    /\ ~discrete /\ ctor.ac_dim >= 2 /\ Len(result.obs) >= 2
    /\ result.value["Actor Loss"] # 0

\* C2: a completed update leaves in .grad the gradient of its own loss alone,
\* its one optimizer step consumed exactly that gradient, and the number of
\* optimizer steps equals the number of completed update calls.
C2_ClearBackwardStep ==
    [][(Called("update") /\ result'.status = "ok")
       => \E g \in {loss_gradient(Self, result'.obs,
                                  IF discrete THEN from_numpy_int(result'.actions)
                                  ELSE result'.actions,
                                  result'.advantages)} :
              /\ grad' = [none |-> FALSE, v |-> g]
              /\ optimizer'.exp_avg = adam_moments(optimizer, g).exp_avg
              /\ optimizer'.exp_avg_sq = adam_moments(optimizer, g).exp_avg_sq
              /\ optimizer'.step = optimizer.step + 1
              /\ optimizer'.step = nCompleted']_vars

\* a second completed update, after a first one that left a non-zero gradient
C2_Witness ==
    /\ result.op = "update" /\ result.status = "ok"
    /\ nCompleted >= 2 /\ optimizer.step = nCompleted
    /\ ~AllZero(optimizer.exp_avg) /\ ~AllZero(grad.v)

\* C3 as stated: an update with all advantages 0 returns loss 0 and leaves
\* every trainable parameter unchanged, at any point of a run.
C3_Original ==
    [][(Called("update") /\ result'.status = "ok" /\ AllZero(result'.advantages))
       => /\ result'.value["Actor Loss"] = 0
          /\ logits_net' = logits_net /\ mean_net' = mean_net /\ logstd' = logstd]_vars

\* C3 as amended: an update with all advantages 0 returns loss 0 and leaves a
\* zero gradient; the parameters are unchanged if Adam's first-moment
\* estimate is zero when the call is made (the first update, or only
\* zero-gradient updates before it).
C3_ZeroAdvantage ==
    [][(Called("update") /\ result'.status = "ok" /\ AllZero(result'.advantages))
       => /\ result'.value["Actor Loss"] = 0
          /\ ~grad'.none /\ AllZero(grad'.v)
          /\ AllZero(optimizer.exp_avg)
               => (logits_net' = logits_net /\ mean_net' = mean_net /\ logstd' = logstd)]_vars

\* a zero-advantage update made on an optimizer whose first moment is zero
C3_Witness ==
    /\ result.op = "update" /\ result.status = "ok"
    /\ AllZero(result.advantages) /\ Len(result.advantages) >= 2
    /\ optimizer.step >= 1 /\ Len(optimizer.exp_avg) > 0 /\ AllZero(optimizer.exp_avg)

\* C4: get_action changes no parameter, gradient, optimizer state or the
\* discrete flag, and after construction the parameters change only in update.
C4_GetActionReadOnly ==
    [][/\ Called("get_action")
          => UNCHANGED <<discrete, logits_net, mean_net, logstd, grad, optimizer, attrs>>
       /\ (cls # "None" /\ <<logits_net, mean_net, logstd>>' # <<logits_net, mean_net, logstd>>)
          => Called("update")]_vars

\* a get_action made after a completed update
C4_Witness ==
    /\ result.op = "get_action" /\ result.status = "ok"
    /\ nCompleted >= 1 /\ ~grad.none /\ ~AllZero(grad.v)

\* C5: get_action returns; in discrete mode an index in 0 .. ac_dim - 1, in
\* continuous mode a vector of length ac_dim.
C5_ActionInRange ==
    result.op = "get_action"
    => /\ result.status = "ok"
       /\ IF ctor.discrete
          THEN result.value \in 0..(ctor.ac_dim - 1)
          ELSE Len(result.value) = ctor.ac_dim

\* the highest index, sampled after the parameters have been updated
C5_Witness ==
    /\ result.op = "get_action" /\ result.status = "ok"
    /\ ctor.discrete /\ ctor.ac_dim >= 2 /\ nCompleted >= 1
    /\ result.value = ctor.ac_dim - 1

\* C6: update on a base MLPPolicy raises NotImplementedError and changes
\* nothing; only an MLPPolicyPG completes an update.
C6_BaseUpdateUnimplemented ==
    [][/\ (Called("update") /\ cls = "MLPPolicy")
          => /\ result'.status = "NotImplementedError"
             /\ UNCHANGED <<discrete, logits_net, mean_net, logstd, grad, optimizer, attrs>>
       /\ (nCompleted' # nCompleted \/ optimizer'.step # optimizer.step)
          => cls = "MLPPolicyPG"]_vars

\* update was called on a base MLPPolicy
C6_Witness ==
    /\ cls = "MLPPolicy" /\ result.op = "update"
    /\ result.status = "NotImplementedError" /\ nCalls >= 2

\* C7 as stated: an update whose batch sizes are not all equal fails.
C7_MismatchFails ==
    (result.op = "update" /\ cls = "MLPPolicyPG" /\ ~EqualBatch(result))
    => result.status # "ok"

\* C8 as stated: no policy with a non-positive dimension exists.
C8_PositiveDimensions ==
    cls # "None" => (ctor.ac_dim > 0 /\ ctor.ob_dim > 0)

\* C9: a constructed instance has exactly the attributes of its mode, logstd
\* has length ac_dim and is all zeros until the first update, and the mode
\* never changes.
ModeInvariant ==
    cls # "None"
    => /\ discrete = ctor.discrete
       /\ IF discrete
          THEN attrs \cap {"logits_net", "mean_net", "logstd"} = {"logits_net"}
          ELSE /\ attrs \cap {"logits_net", "mean_net", "logstd"} = {"mean_net", "logstd"}
               /\ Len(logstd) = ctor.ac_dim
               /\ nCompleted = 0 => AllZero(logstd)

C9_ModeFixed ==
    /\ []ModeInvariant
    /\ [][cls # "None" => (discrete' = discrete /\ attrs' = attrs)]_vars

\* a continuous policy whose logstd an update has moved away from zero
C9_Witness ==
    /\ cls # "None" /\ ~discrete /\ nCompleted >= 1
    /\ Len(logstd) = ctor.ac_dim /\ ~AllZero(logstd)

\* C10: the loss an update returns is the loss at the parameters the call
\* found, which are those the previous optimizer step (or construction) left.
C10_LossAtPreStepParameters ==
    [][(Called("update") /\ result'.status = "ok")
       => result'.value["Actor Loss"]
            = pg_loss(Self, result'.obs,
                      IF discrete THEN from_numpy_int(result'.actions)
                      ELSE result'.actions,
                      result'.advantages).v]_vars

\* a second update whose returned loss differs from the loss at the
\* parameters its own step produced
C10_Witness ==
    /\ result.op = "update" /\ result.status = "ok" /\ nCompleted >= 2
    /\ result.value["Actor Loss"]
         # pg_loss(Self, result.obs,
                   IF discrete THEN from_numpy_int(result.actions) ELSE result.actions,
                   result.advantages).v

====
